---- MODULE Spec2Model ----
(***************************************************************************)
(* Model of the CSS-value expression evaluator of responsive-text-width.   *)
(*                                                                         *)
(* Two copies of evaluateExpression / evaluateBasicMath live in the        *)
(* repository:                                                             *)
(*   "lib" : src/lib/evaluate-expression.ts      (imported by UnitInput)   *)
(*   "vi"  : src/components/validated-input.tsx  (precompiled regexes and  *)
(*           the inline unary-minus folding)                               *)
(* A call is modelled as a state machine: one action for the unit          *)
(* extraction, one for tokenization, one per iteration of the              *)
(* infix-to-postfix loop, one for the final drain, one per iteration of    *)
(* the postfix evaluation loop, and one each for the result check, the     *)
(* return and the catch block.                                             *)
(*                                                                         *)
(* Spec is one call on any of Inputs.  SpecCalls is a sequence of calls in  *)
(* one module, with the lastIndex of the module-level regexes of           *)
(* validated-input.tsx kept from call to call.  SpecUnitInput is the       *)
(* UnitInput component (src/components/unit-input): one action per event   *)
(* handler, which runs to completion; the parent stores what onChange is   *)
(* given and passes it back as the prop value.                             *)
(*                                                                         *)
(* Strings are sequences of one-character strings.  JavaScript numbers are *)
(* exact rationals n/d (d > 0, lowest terms) or NaN; `undefined` is a      *)
(* value of its own.  +-Infinity needs a literal of more than 308 digits   *)
(* or a product of such magnitude and cannot arise within the bounds       *)
(* below, so every "num" value is finite.                                  *)
(***************************************************************************)
EXTENDS Integers, Sequences, FiniteSets, TLC

VARIABLES
    variant,    \* which copy of evaluateExpression is called: "lib" or "vi"
    expr,       \* the argument of evaluateExpression
    pc,         \* position inside the call
    unit,       \* const unit
    mathExpr,   \* const mathExpr
    tokens,     \* const tokens (evaluateBasicMath)
    i,          \* index of the next token of the infix loop (1-based)
    output,     \* const output: string[]
    operators,  \* const operators: string[]
    j,          \* index of the next token of the postfix loop (1-based)
    stack,      \* const stack: number[]
    result,     \* const result = evaluateBasicMath(mathExpr)
    thrown,     \* message of the Error in flight inside the try block, or NoError
    outcome,    \* what evaluateExpression gave its caller
    lastIndex,  \* lastIndex of the module-level regexes of validated-input.tsx
    calls,      \* the finished calls before this one: their arguments and outcomes
    ncalls,     \* how many calls have been started
    props,      \* UnitInput: the props min, max and allowedUnits
    value,      \* UnitInput: the prop value, which the parent sets in onChange
    localValue, \* UnitInput: const [localValue, setLocalValue]
    localUnit,  \* UnitInput: const [localUnit, setLocalUnit]
    isEditing,  \* UnitInput: const [isEditing, setIsEditing]
    isValid,    \* UnitInput: const [isValid, setIsValid]
    onChange,   \* UnitInput: the arguments of the onChange calls of the last event
    event,      \* UnitInput: the handler that ran last and what it was given
    fonts,           \* FontSelector: const [fonts, setFonts], by font id
    loading,         \* FontSelector: const [loading, setLoading]
    error,           \* FontSelector: const [error, setError] holds a message
    loadingFont,     \* FontSelector: const [loadingFont, setLoadingFont]
    fetchFonts,      \* FontSelector: position of fetchFonts, the mount effect
    loadedFonts,     \* const loadedFonts: font id -> its cached promise, 0 for none
    loadedFontFaces, \* const loadedFontFaces: Set of font ids
    promises,        \* the font-details fetches issued so far, per font id
    documentFonts,   \* document.fonts: the font id of each FontFace added
    loadFontCalls,   \* the loadFont calls that have not returned
    started,         \* how many loadFont calls have been started
    fontFamily,      \* TextEditor: const [fontFamily, setFontFamily]
    fontWeight,      \* TextEditor: const [fontWeight, setFontWeight]
    isFontLoaded,    \* FitText: const [isFontLoaded, setIsFontLoaded]
    checks,          \* FitText: the checkFontLoaded runs that have not finished
    textWidth,       \* FitText: const [textWidth, setTextWidth]
    measureTextDebounceRef, \* FitText: the closure of the pending 100 ms timer
    effectsOf        \* FitText: the render whose effects ran last

\* the locals of one call of evaluateExpression
callVars == <<variant, expr, pc, unit, mathExpr, tokens, i, output, operators,
              j, stack, result, thrown, outcome>>

\* what outlives a call
moduleVars == <<lastIndex, calls, ncalls>>

\* the components that call evaluateExpression
componentVars == <<props, value, localValue, localUnit, isEditing, isValid,
                   onChange, event>>

\* FontSelector and the module-level caches of font-selector.tsx
selectorVars == <<fonts, loading, error, loadingFont, fetchFonts, loadedFonts,
                  loadedFontFaces, promises, documentFonts, loadFontCalls,
                  started, fontFamily>>

\* FitText
fitTextVars == <<fontWeight, isFontLoaded, checks, textWidth,
                 measureTextDebounceRef, effectsOf>>

fontVars == <<selectorVars, fitTextVars>>

vars == <<callVars, moduleVars, componentVars, fontVars>>

----------------------------------------------------------------------------
(* Characters and strings                                                  *)

Digits == {"0", "1", "2", "3", "4", "5", "6", "7", "8", "9"}

DigitChars == <<"0", "1", "2", "3", "4", "5", "6", "7", "8", "9">>

DigitVal(c) == (CHOOSE k \in 1..10 : DigitChars[k] = c) - 1

LowerLetters ==
    {"a", "b", "c", "d", "e", "f", "g", "h", "i", "j", "k", "l", "m",
     "n", "o", "p", "q", "r", "s", "t", "u", "v", "w", "x", "y", "z"}

UpperLetters ==
    {"A", "B", "C", "D", "E", "F", "G", "H", "I", "J", "K", "L", "M",
     "N", "O", "P", "Q", "R", "S", "T", "U", "V", "W", "X", "Y", "Z"}

\* \s of the regular expressions and of String.prototype.trim.
IsSpace(c) == c = " "

Last(s) == s[Len(s)]

Front(s) == SubSeq(s, 1, Len(s) - 1)

Abs(n) == IF n < 0 THEN -n ELSE n

RECURSIVE GCD(_, _)
GCD(a, b) == IF b = 0 THEN a ELSE GCD(b, a % b)

RECURSIVE Pow10(_)
Pow10(k) == IF k = 0 THEN 1 ELSE 10 * Pow10(k - 1)

----------------------------------------------------------------------------
(* JavaScript values                                                       *)

Rat(n, d) ==
    LET g == GCD(Abs(n), Abs(d))
        s == IF d < 0 THEN -1 ELSE 1
    IN  [k |-> "num", n |-> (s * n) \div g, d |-> (s * d) \div g]

Num(n) == [k |-> "num", n |-> n, d |-> 1]

NaN == [k |-> "NaN", n |-> 0, d |-> 1]

undefined == [k |-> "undefined", n |-> 0, d |-> 1]

\* The global isNaN: ToNumber(undefined) is NaN.
isNaN(v) == v.k # "num"

\* The global isFinite: false for NaN and undefined (and +-Infinity, which
\* no value of the model is).
isFinite(v) == v.k = "num"

\* a + b, a - b, a * b, a / b on numbers; an undefined or NaN operand
\* gives NaN.  a / b is only evaluated with b # 0 (the guard throws first)
\* or with b not a number.
jsAdd(a, b) ==
    IF a.k = "num" /\ b.k = "num" THEN Rat(a.n * b.d + b.n * a.d, a.d * b.d) ELSE NaN

jsSub(a, b) ==
    IF a.k = "num" /\ b.k = "num" THEN Rat(a.n * b.d - b.n * a.d, a.d * b.d) ELSE NaN

jsMul(a, b) ==
    IF a.k = "num" /\ b.k = "num" THEN Rat(a.n * b.n, a.d * b.d) ELSE NaN

jsDiv(a, b) ==
    IF a.k = "num" /\ b.k = "num" /\ b.n # 0 THEN Rat(a.n * b.d, a.d * b.n) ELSE NaN

\* b === 0
IsZero(v) == v.k = "num" /\ v.n = 0

----------------------------------------------------------------------------
(* String -> number conversion, Number(token) and the unary + of +token    *)

RECURSIVE DigitsValue(_)
DigitsValue(s) ==
    IF s = <<>> THEN 0 ELSE 10 * DigitsValue(Front(s)) + DigitVal(Last(s))

CountOf(s, c) == Cardinality({p \in 1..Len(s) : s[p] = c})

\* StrUnsignedDecimalLiteral without exponent: digits, digits. , .digits or
\* digits.digits (no token ever holds a letter, so no exponent, no Infinity).
IsUnsignedDecimal(s) ==
    /\ \A p \in 1..Len(s) : s[p] \in Digits \cup {"."}
    /\ CountOf(s, ".") <= 1
    /\ \E p \in 1..Len(s) : s[p] \in Digits

UnsignedValue(s) ==
    LET dots == {p \in 1..Len(s) : s[p] = "."}
        dot  == IF dots = {} THEN Len(s) + 1 ELSE CHOOSE p \in dots : TRUE
        ip   == SubSeq(s, 1, dot - 1)
        fp   == SubSeq(s, dot + 1, Len(s))
    IN  Rat(DigitsValue(ip) * Pow10(Len(fp)) + DigitsValue(fp), Pow10(Len(fp)))

\* Number(t): the empty string is 0, an optionally signed decimal literal is
\* its value, anything else ("(", "+", "-", "--5", ...) is NaN.
Number(t) ==
    IF t = <<>> THEN Num(0)
    ELSE LET signed == t[1] \in {"-", "+"}
             body   == IF signed THEN Tail(t) ELSE t
             v      == UnsignedValue(body)
         IN  IF ~IsUnsignedDecimal(body) THEN NaN
             ELSE IF t[1] = "-" THEN Rat(-v.n, v.d) ELSE v

----------------------------------------------------------------------------
(* The regular expressions                                                 *)

\* expr.trim()
RECURSIVE trimStart(_)
trimStart(s) ==
    IF s # <<>> /\ IsSpace(Head(s)) THEN trimStart(Tail(s)) ELSE s

RECURSIVE trimEnd(_)
trimEnd(s) ==
    IF s # <<>> /\ IsSpace(Last(s)) THEN trimEnd(Front(s)) ELSE s

trim(s) == trimEnd(trimStart(s))

\* expr as it is, with its whitespace left for the tokenizer to skip.
keepWhitespace(s) == s

\* expr.replace(/\s+/g, "")
WHITESPACE_REGEX(s) == SelectSeq(s, LAMBDA c : ~IsSpace(c))

\* The class [a-z] alone, which leaves "%" out of the unit.
UnitCharsLettersOnly == LowerLetters \cup UpperLetters

\* The character class [a-z%] under the i flag.
UnitChars == LowerLetters \cup UpperLetters \cup {"%"}

\* /([a-z%]+)$/i searched in s: the index at which the match starts, the
\* leftmost position from which only class characters follow up to the end;
\* Len(s) + 1 when there is no match.
RECURSIVE UNIT_REGEX_from(_, _)
UNIT_REGEX_from(s, p) ==
    IF p > 1 /\ s[p - 1] \in UnitChars THEN UNIT_REGEX_from(s, p - 1) ELSE p

UNIT_REGEX(s) == UNIT_REGEX_from(s, Len(s) + 1)

\* \d* at position p: the position after the longest run of digits.
RECURSIVE DigitsEnd(_, _)
DigitsEnd(s, p) ==
    IF p <= Len(s) /\ s[p] \in Digits THEN DigitsEnd(s, p + 1) ELSE p

\* \d*\.?\d+ at position p (greedy, with backtracking): the position after
\* the match, 0 when it does not match at p.
UnsignedNumberEnd(s, p) ==
    LET d1 == DigitsEnd(s, p)
    IN  IF d1 + 1 <= Len(s) /\ s[d1] = "." /\ s[d1 + 1] \in Digits
        THEN DigitsEnd(s, d1 + 1)
        ELSE IF d1 > p THEN d1 ELSE 0

OperatorChars == {"(", ")", "+", "-", "*", "/"}

\* One match attempt of /(\d*\.?\d+)|[()+\-*/]/ at position p.
LibTokenEnd(s, p) ==
    IF UnsignedNumberEnd(s, p) # 0 THEN UnsignedNumberEnd(s, p)
    ELSE IF s[p] \in OperatorChars THEN p + 1 ELSE 0

\* One match attempt of TOKEN_REGEX = /(-?\d*\.?\d+)|[()+\-*/]/ at p.
TOKEN_REGEX(s, p) ==
    IF s[p] = "-" /\ p < Len(s) /\ UnsignedNumberEnd(s, p + 1) # 0
    THEN UnsignedNumberEnd(s, p + 1)
    ELSE IF UnsignedNumberEnd(s, p) # 0 THEN UnsignedNumberEnd(s, p)
    ELSE IF s[p] \in OperatorChars THEN p + 1 ELSE 0

\* expr.match(re) || [] with the g flag: every non-overlapping match, left
\* to right; a position where the expression does not match is skipped.
LibMatchAll(s, p) ==
    LET from[q \in 1..(Len(s) + 1)] ==
            IF q > Len(s) THEN <<>>
            ELSE IF LibTokenEnd(s, q) = 0 THEN from[q + 1]
            ELSE <<SubSeq(s, q, LibTokenEnd(s, q) - 1)>> \o from[LibTokenEnd(s, q)]
    IN  from[p]

ViMatchAll(s, p) ==
    LET from[q \in 1..(Len(s) + 1)] ==
            IF q > Len(s) THEN <<>>
            ELSE IF TOKEN_REGEX(s, q) = 0 THEN from[q + 1]
            ELSE <<SubSeq(s, q, TOKEN_REGEX(s, q) - 1)>> \o from[TOKEN_REGEX(s, q)]
    IN  from[p]

----------------------------------------------------------------------------
(* evaluateBasicMath: infix to postfix                                     *)

PLUS == <<"+">>
MINUS == <<"-">>
TIMES == <<"*">>
DIVIDE == <<"/">>
LPAREN == <<"(">>
RPAREN == <<")">>

\* The precedence table; NoPrecedence stands for the undefined that a key
\* outside the table gives.
NoPrecedence == 0

\* A table that gives every operator the same precedence.
precedenceFlat(token) ==
    IF token \in {PLUS, MINUS, TIMES, DIVIDE} THEN 1 ELSE NoPrecedence

precedence(token) ==
    IF token = PLUS THEN 1
    ELSE IF token = MINUS THEN 1
    ELSE IF token = TIMES THEN 2
    ELSE IF token = DIVIDE THEN 2
    ELSE NoPrecedence

\* The comparison with > in place of >=, which makes equal precedence
\* associate to the right.
precedenceGT(top, token) ==
    /\ precedence(top) # NoPrecedence
    /\ precedence(token) # NoPrecedence
    /\ precedence(top) > precedence(token)

\* precedence[top] >= precedence[token]; a comparison with undefined is false.
precedenceGE(top, token) ==
    /\ precedence(top) # NoPrecedence
    /\ precedence(token) # NoPrecedence
    /\ precedence(top) >= precedence(token)

\* while (operators.length > 0 && top !== '(') output.push(operators.pop())
\* followed by operators.pop(), which leaves an empty array empty.
RECURSIVE closeParen(_, _)
closeParen(out, ops) ==
    IF ops # <<>> /\ Last(ops) # LPAREN
    THEN closeParen(Append(out, Last(ops)), Front(ops))
    ELSE <<out, IF ops = <<>> THEN ops ELSE Front(ops)>>

\* while (operators.length > 0 && top !== '(' && precedence[top] >=
\* precedence[token]) output.push(operators.pop()); operators.push(token)
RECURSIVE pushOperator(_, _, _)
pushOperator(out, ops, token) ==
    IF ops # <<>> /\ Last(ops) # LPAREN /\ precedenceGE(Last(ops), token)
    THEN pushOperator(Append(out, Last(ops)), Front(ops), token)
    ELSE <<out, Append(ops, token)>>

\* The body of the infix loop for one token: <<output, operators>> after it.
shuntToken(out, ops, token) ==
    IF ~isNaN(Number(token)) THEN <<Append(out, token), ops>>
    ELSE IF token = LPAREN THEN <<out, Append(ops, token)>>
    ELSE IF token = RPAREN THEN closeParen(out, ops)
    ELSE pushOperator(out, ops, token)

\* while (operators.length > 0) output.push(operators.pop())
RECURSIVE drain(_, _)
drain(out, ops) ==
    IF ops = <<>> THEN out ELSE drain(Append(out, Last(ops)), Front(ops))

\* validated-input.tsx only: the condition under which a "-" is combined with
\* the token after it.
unaryContext == {LPAREN, PLUS, MINUS, TIMES, DIVIDE}

isUnaryMinus(toks, k) ==
    /\ toks[k] = MINUS
    /\ (k = 1 \/ toks[k - 1] \in unaryContext)
    /\ k + 1 <= Len(toks)
    /\ ~isNaN(Number(toks[k + 1]))

----------------------------------------------------------------------------
(* evaluateBasicMath: postfix evaluation                                   *)

\* stack.pop(): undefined on an empty array.
popValue(st) == IF st = <<>> THEN undefined ELSE Last(st)

popRest(st) == IF st = <<>> THEN st ELSE Front(st)

\* The switch: the stack after a and b were popped and token applied; a
\* token that is no case of the switch pushes nothing.
applyOperator(rest, token, a, b) ==
    IF token = PLUS THEN Append(rest, jsAdd(a, b))
    ELSE IF token = MINUS THEN Append(rest, jsSub(a, b))
    ELSE IF token = TIMES THEN Append(rest, jsMul(a, b))
    ELSE IF token = DIVIDE THEN Append(rest, jsDiv(a, b))
    ELSE rest

\* if (b === 0) throw new Error('Division by zero'), in case '/'
divisionByZero(token, b) == token = DIVIDE /\ IsZero(b)

\* return stack[0] || 0, which would turn a missing result into zero.
stackBottomOrZero(st) == IF st = <<>> THEN Num(0) ELSE st[1]

\* return stack[0]
stackBottom(st) == IF st = <<>> THEN undefined ELSE st[1]

----------------------------------------------------------------------------
(* evaluateExpression                                                      *)

NONE == <<"n", "o", "n", "e">>

\* const unit = (unitMatch?.[1] || 'none')
unitOf(s) ==
    IF UNIT_REGEX(s) > Len(s) THEN NONE ELSE SubSeq(s, UNIT_REGEX(s), Len(s))

\* lib: expr.replace(/[a-z%]+$/i, ''); validated-input: expr.slice(0,
\* unitMatch.index), or expr without a match.
mathExprOf(s) == SubSeq(s, 1, UNIT_REGEX(s) - 1)

\* Number.isNaN(result) alone, which does not coerce undefined.
invalidResultStrictNaN(v) == v.k = "NaN"

\* isNaN(result) || !isFinite(result)
invalidResult(v) == isNaN(v) \/ ~isFinite(v)

NoError == "no error"

Pending == [kind |-> "pending", value |-> undefined, unit |-> <<>>, message |-> ""]

\* const unitToPixels: Record<Unit, number>, which nothing reads; a unit
\* that is no key of it gives undefined.
unitToPixels(u) ==
    IF u \in {<<"e", "m">>, <<"r", "e", "m">>} THEN Num(16)
    ELSE IF u \in {<<"p", "x">>, <<"%">>, NONE} THEN Num(1)
    ELSE undefined

\* return { value: result * unitToPixels[unit], unit }, a conversion the
\* code does not make.
ReturnedInPixels(v, u) ==
    [kind |-> "returned", value |-> jsMul(v, unitToPixels(u)), unit |-> u, message |-> ""]

Returned(v, u) == [kind |-> "returned", value |-> v, unit |-> u, message |-> ""]

Threw(m) == [kind |-> "threw", value |-> undefined, unit |-> <<>>, message |-> m]

----------------------------------------------------------------------------
(* Number.prototype.toString                                               *)

\* d without its factors 2 and 5
RECURSIVE WithoutTwosAndFives(_)
WithoutTwosAndFives(d) ==
    IF d % 2 = 0 THEN WithoutTwosAndFives(d \div 2)
    ELSE IF d % 5 = 0 THEN WithoutTwosAndFives(d \div 5)
    ELSE d

\* The numbers toString writes in full in decimal notation and that the
\* rationals of this model hold exactly: a terminating decimal expansion
\* and a magnitude of zero or at least 10^-6.
DecimalNotation(v) ==
    /\ v.k = "num"
    /\ WithoutTwosAndFives(v.d) = 1
    /\ (v.n = 0 \/ Abs(v.n) * 1000000 >= v.d)

RECURSIVE naturalToString(_)
naturalToString(n) ==
    IF n < 10 THEN <<DigitChars[n + 1]>>
    ELSE naturalToString(n \div 10) \o <<DigitChars[(n % 10) + 1]>>

\* the digits after the "." of r / d, for 0 <= r < d
RECURSIVE fractionToString(_, _)
fractionToString(r, d) ==
    IF r = 0 THEN <<>>
    ELSE <<DigitChars[((r * 10) \div d) + 1]>> \o fractionToString((r * 10) % d, d)

\* value.toString() for a value in decimal notation: "-" for a negative
\* value, the integer part, and "." with the fraction digits if there are
\* any.
numberToString(v) ==
    LET whole == Abs(v.n) \div v.d
        r     == Abs(v.n) % v.d
    IN  (IF v.n < 0 THEN <<"-">> ELSE <<>>)
            \o naturalToString(whole)
            \o (IF r = 0 THEN <<>> ELSE <<".">> \o fractionToString(r, v.d))

----------------------------------------------------------------------------
(* The inputs of the calls                                                 *)

\* Every string of at most MaxLen characters over Alphabet, and the
\* arithmetic expressions of up to three operands over Literals, plain or
\* with spaces around the operators and a unit suffix.
MaxLen == 3

Alphabet == {"2", "0", ".", "+", "-", "/", "(", ")", " ", "p", "%", "#"}

ShortStrings == UNION {[1..n -> Alphabet] : n \in 0..MaxLen}

Literals == {<<"0">>, <<"2">>, <<"3">>, <<"4">>}

MoreLiterals == {<<"1", ".", "5">>, <<"1", "0">>, <<"5">>}

BinaryOperators == {"+", "-", "*", "/"}

Px == <<"p", "x">>

Em == <<"e", "m">>

Rem == <<"r", "e", "m">>

Percent == <<"%">>

Vw == <<"v", "w">>

Vh == <<"v", "h">>

Ch == <<"c", "h">>

\* the unit "" of type Unit in src/types: no unit
Unitless == <<>>

\* a op b
Binary(a, o, b) == a \o <<o>> \o b

\* a op b op c, (a op b) op c, a op (b op c)
Chain(a, o, b, q, c) == a \o <<o>> \o b \o <<q>> \o c

GroupLeft(a, o, b, q, c) == <<"(">> \o a \o <<o>> \o b \o <<")", q>> \o c

GroupRight(a, o, b, q, c) == a \o <<o, "(">> \o b \o <<q>> \o c \o <<")">>

\* a space on both sides of every binary operator, i.e. of every operator
\* character that follows a digit or a ")"
RECURSIVE SpacedFrom(_, _)
SpacedFrom(s, p) ==
    IF p > Len(s) THEN <<>>
    ELSE IF s[p] \in BinaryOperators /\ p > 1 /\ s[p - 1] \in Digits \cup {")"}
         THEN <<" ", s[p], " ">> \o SpacedFrom(s, p + 1)
         ELSE <<s[p]>> \o SpacedFrom(s, p + 1)

Spaced(s) == SpacedFrom(s, 1)

TwoOperand ==
    LET L == Literals \cup MoreLiterals
    IN  L
        \cup {<<"-">> \o a : a \in L}
        \cup {Binary(a, o, b) : a \in L, o \in BinaryOperators, b \in L}
        \cup {<<"-">> \o Binary(a, o, b) : a \in L, o \in BinaryOperators, b \in L}
        \cup {Binary(a, o, <<"-">> \o b) : a \in L, o \in BinaryOperators, b \in L}
        \cup {Binary(a, o, b) \o <<q>> :
                a \in L, o \in BinaryOperators, b \in L, q \in BinaryOperators}

ThreeOperand ==
    UNION {{Chain(a, o, b, q, c), GroupLeft(a, o, b, q, c), GroupRight(a, o, b, q, c)} :
             a \in Literals, o \in BinaryOperators, b \in Literals,
             q \in BinaryOperators, c \in Literals}

\* operands next to each other without an operator, and unclosed or
\* unopened parentheses
Juxtaposed ==
    UNION {{a \o <<"(">> \o b \o <<")">>,
            <<"(">> \o a \o <<")", "(">> \o b \o <<")">>,
            <<"(">> \o a \o <<")", "(">> \o b \o <<")", "(">> \o c,
            <<"(">> \o a \o <<"+">> \o b,
            a \o <<"+">> \o b \o <<")">>} :
             a \in Literals, b \in Literals, c \in Literals}
        \cup {<<"(">> \o a \o <<")">> \o b \o <<o>> :
                a \in Literals, b \in Literals, o \in BinaryOperators}

\* a number followed by letters with a space among them
SplitSuffix == {a \o <<"p", " ", "x">> : a \in Literals}

Expressions ==
    TwoOperand \cup ThreeOperand \cup Juxtaposed \cup SplitSuffix
        \cup {Spaced(e) \o Px : e \in TwoOperand}
        \cup {Spaced(e) \o Em : e \in ThreeOperand}

Inputs == ShortStrings \cup Expressions

Variants == {"lib", "vi"}

----------------------------------------------------------------------------
(* evaluateExpression as a function of its argument                        *)

\* The infix loop of evaluateBasicMath from token k on, then the loop that
\* drains the operator stack: the postfix output.
RECURSIVE infixLoop(_, _, _, _, _)
infixLoop(v, toks, k, out, ops) ==
    IF k > Len(toks) THEN drain(out, ops)
    ELSE LET fold  == v = "vi" /\ isUnaryMinus(toks, k)
             token == IF fold THEN MINUS \o toks[k + 1] ELSE toks[k]
             r     == shuntToken(out, ops, token)
         IN  infixLoop(v, toks, IF fold THEN k + 2 ELSE k + 1, r[1], r[2])

\* The postfix loop from token k on with its return: the error thrown, or
\* the value returned.
RECURSIVE postfixLoop(_, _, _)
postfixLoop(out, k, st) ==
    IF k > Len(out) THEN [thrown |-> NoError, value |-> stackBottom(st)]
    ELSE IF ~isNaN(Number(out[k]))
         THEN postfixLoop(out, k + 1, Append(st, Number(out[k])))
         ELSE LET b    == popValue(st)
                  a    == popValue(popRest(st))
                  rest == popRest(popRest(st))
              IN  IF divisionByZero(out[k], b)
                  THEN [thrown |-> "Division by zero", value |-> undefined]
                  ELSE postfixLoop(out, k + 1, applyOperator(rest, out[k], a, b))

\* expr.replace(WHITESPACE_REGEX, '').match(TOKEN_REGEX) || []
tokenize(v, s) ==
    IF v = "lib" THEN LibMatchAll(WHITESPACE_REGEX(s), 1)
    ELSE ViMatchAll(WHITESPACE_REGEX(s), 1)

evaluateBasicMath(v, s) ==
    postfixLoop(infixLoop(v, tokenize(v, s), 1, <<>>, <<>>), 1, <<>>)

evaluateExpression(v, e) ==
    LET r == evaluateBasicMath(v, mathExprOf(trim(e)))
    IN  IF r.thrown # NoError \/ invalidResult(r.value)
        THEN Threw("Invalid expression")
        ELSE Returned(r.value, unitOf(trim(e)))

----------------------------------------------------------------------------
(* The call                                                                *)

\* String.prototype.replace with the global WHITESPACE_REGEX: the search
\* starts at index 0 whatever lastIndex was, and lastIndex is 0 afterwards.
globalReplace(s, li) == [string |-> WHITESPACE_REGEX(s), lastIndex |-> 0]

\* A scan as by repeated TOKEN_REGEX.exec that starts at lastIndex and leaves
\* lastIndex where it stopped.
execFromLastIndex(s, li) == [matches |-> ViMatchAll(s, li + 1), lastIndex |-> Len(s)]

\* String.prototype.match with the global TOKEN_REGEX: the same.
globalMatch(s, li) == [matches |-> ViMatchAll(s, 1), lastIndex |-> 0]

\* const commonFonts
commonFonts ==
    <<"roboto", "open-sans", "lato", "montserrat", "poppins", "inter", "nunito",
      "ubuntu", "source-sans-3", "pt-sans", "noto-sans", "merriweather",
      "playfair-display", "pt-serif", "noto-serif", "libre-baskerville",
      "anton", "exo-2", "orbitron", "inconsolata", "space-mono">>

\* The ids of the font list the server answers with: one common font and
\* one that is not preloaded.
FontList == {"roboto", "abel"}

\* the family of a font of the list
family(id) == IF id = "roboto" THEN "Roboto" ELSE "Abel"

\* A render of FitText by the values its callbacks and effects depend on.
Render(f, w, l, t) ==
    [fontFamily |-> f, fontWeight |-> w, isFontLoaded |-> l, textWidth |-> t]

\* No FitText is rendered.
NoFitText ==
    /\ fontWeight = 500
    /\ isFontLoaded = FALSE
    /\ checks = {}
    /\ textWidth = <<>>
    /\ measureTextDebounceRef = <<>>
    /\ effectsOf = Render("Inter", 500, FALSE, <<>>)

\* No FontSelector is rendered and font-selector.tsx has loaded nothing.
NoFontSelector ==
    /\ fonts = {}
    /\ loading = FALSE
    /\ error = FALSE
    /\ loadingFont = "null"
    /\ fetchFonts = "done"
    /\ loadedFonts = [id \in FontList |-> 0]
    /\ loadedFontFaces = {}
    /\ promises = [id \in FontList |-> <<>>]
    /\ documentFonts = <<>>
    /\ loadFontCalls = {}
    /\ started = 0

\* Neither font component is rendered.
NoFonts ==
    /\ NoFontSelector
    /\ NoFitText
    /\ fontFamily = "Inter"

\* The module as loaded: both regexes at lastIndex 0 and no call made.
Loaded ==
    /\ lastIndex = [WHITESPACE_REGEX |-> 0, TOKEN_REGEX |-> 0]
    /\ calls = {}
    /\ ncalls = 1

\* No handler has run.
NoEvent == [handler |-> "none", text |-> <<>>, unit |-> <<>>]

\* No UnitInput is rendered.
NotRendered ==
    /\ props = [min |-> undefined, max |-> undefined, allowedUnits |-> {}]
    /\ value = [value |-> undefined, unit |-> <<>>]
    /\ localValue = <<>>
    /\ localUnit = <<>>
    /\ isEditing = FALSE
    /\ isValid = TRUE
    /\ onChange = <<>>
    /\ event = NoEvent

Init ==
    /\ Loaded
    /\ NoFonts
    /\ NotRendered
    /\ variant \in Variants
    /\ expr \in Inputs
    /\ pc = "call"
    /\ unit = <<>>
    /\ mathExpr = <<>>
    /\ tokens = <<>>
    /\ i = 1
    /\ output = <<>>
    /\ operators = <<>>
    /\ j = 1
    /\ stack = <<>>
    /\ result = undefined
    /\ thrown = NoError
    /\ outcome = Pending

\* evaluateExpression up to the try block: trim, the unit and the math part.
ExtractUnit ==
    /\ pc = "call"
    /\ unit' = unitOf(trim(expr))
    /\ mathExpr' = mathExprOf(trim(expr))
    /\ pc' = "tokenize"
    /\ UNCHANGED <<variant, expr, tokens, i, output, operators, j, stack, result,
                   thrown, outcome>>
    /\ UNCHANGED <<moduleVars, componentVars, fontVars>>

\* evaluateBasicMath, lib: whitespace removal and expr.match(...) || []
TokenizeLib ==
    /\ pc = "tokenize"
    /\ variant = "lib"
    /\ tokens' = LibMatchAll(WHITESPACE_REGEX(mathExpr), 1)
    /\ pc' = "infix"
    /\ UNCHANGED <<variant, expr, unit, mathExpr, i, output, operators, j, stack,
                   result, thrown, outcome>>
    /\ UNCHANGED <<moduleVars, componentVars, fontVars>>

\* evaluateBasicMath, validated-input: the same with TOKEN_REGEX
TokenizeVi ==
    /\ pc = "tokenize"
    /\ variant = "vi"
    /\ LET stripped == globalReplace(mathExpr, lastIndex.WHITESPACE_REGEX)
           matched  == globalMatch(stripped.string, lastIndex.TOKEN_REGEX)
       IN  /\ tokens' = matched.matches
           /\ lastIndex' = [WHITESPACE_REGEX |-> stripped.lastIndex,
                            TOKEN_REGEX |-> matched.lastIndex]
    /\ pc' = "infix"
    /\ UNCHANGED <<variant, expr, unit, mathExpr, i, output, operators, j, stack,
                   result, thrown, outcome>>
    /\ UNCHANGED <<calls, ncalls, componentVars, fontVars>>

\* lib: one iteration of for (const token of tokens)
InfixStepLib ==
    /\ pc = "infix"
    /\ variant = "lib"
    /\ i <= Len(tokens)
    /\ output' = shuntToken(output, operators, tokens[i])[1]
    /\ operators' = shuntToken(output, operators, tokens[i])[2]
    /\ i' = i + 1
    /\ UNCHANGED <<variant, expr, pc, unit, mathExpr, tokens, j, stack, result,
                   thrown, outcome>>
    /\ UNCHANGED <<moduleVars, componentVars, fontVars>>

\* validated-input: one iteration of for (let i = 0; i < tokens.length; i++),
\* which combines a unary "-" with the token after it and skips that token.
InfixStepVi ==
    /\ pc = "infix"
    /\ variant = "vi"
    /\ i <= Len(tokens)
    /\ LET fold  == isUnaryMinus(tokens, i)
           token == IF fold THEN MINUS \o tokens[i + 1] ELSE tokens[i]
       IN  /\ output' = shuntToken(output, operators, token)[1]
           /\ operators' = shuntToken(output, operators, token)[2]
           /\ i' = IF fold THEN i + 2 ELSE i + 1
    /\ UNCHANGED <<variant, expr, pc, unit, mathExpr, tokens, j, stack, result,
                   thrown, outcome>>
    /\ UNCHANGED <<moduleVars, componentVars, fontVars>>

\* The loop that drains the operator stack, after the last token.
Drain ==
    /\ pc = "infix"
    /\ i > Len(tokens)
    /\ output' = drain(output, operators)
    /\ operators' = <<>>
    /\ pc' = "postfix"
    /\ UNCHANGED <<variant, expr, unit, mathExpr, tokens, i, j, stack, result,
                   thrown, outcome>>
    /\ UNCHANGED <<moduleVars, componentVars, fontVars>>

\* An iteration that pushes nothing and stays at its token.
PushNumberStays ==
    /\ pc = "postfix"
    /\ j <= Len(output)
    /\ ~isNaN(Number(output[j]))
    /\ UNCHANGED vars

\* One iteration of for (const token of output) that pushes a number.
PushNumber ==
    /\ pc = "postfix"
    /\ j <= Len(output)
    /\ ~isNaN(Number(output[j]))
    /\ stack' = Append(stack, Number(output[j]))
    /\ j' = j + 1
    /\ UNCHANGED <<variant, expr, pc, unit, mathExpr, tokens, i, output, operators,
                   result, thrown, outcome>>
    /\ UNCHANGED <<moduleVars, componentVars, fontVars>>

\* One iteration that pops b and a and applies the token.
ApplyToken ==
    /\ pc = "postfix"
    /\ j <= Len(output)
    /\ isNaN(Number(output[j]))
    /\ LET b    == popValue(stack)
           a    == popValue(popRest(stack))
           rest == popRest(popRest(stack))
       IN  IF divisionByZero(output[j], b)
           THEN /\ stack' = rest
                /\ thrown' = "Division by zero"
                /\ pc' = "catch"
                /\ j' = j
           ELSE /\ stack' = applyOperator(rest, output[j], a, b)
                /\ j' = j + 1
                /\ UNCHANGED <<pc, thrown>>
    /\ UNCHANGED <<variant, expr, unit, mathExpr, tokens, i, output, operators,
                   result, outcome>>
    /\ UNCHANGED <<moduleVars, componentVars, fontVars>>

\* return stack[0], and const result = evaluateBasicMath(mathExpr)
ReturnBasicMath ==
    /\ pc = "postfix"
    /\ j > Len(output)
    /\ result' = stackBottom(stack)
    /\ pc' = "check"
    /\ UNCHANGED <<variant, expr, unit, mathExpr, tokens, i, output, operators, j,
                   stack, thrown, outcome>>
    /\ UNCHANGED <<moduleVars, componentVars, fontVars>>

\* if (isNaN(result) || !isFinite(result)) throw new Error('Invalid expression')
RejectResult ==
    /\ pc = "check"
    /\ invalidResult(result)
    /\ thrown' = "Invalid expression"
    /\ pc' = "catch"
    /\ UNCHANGED <<variant, expr, unit, mathExpr, tokens, i, output, operators, j,
                   stack, result, outcome>>
    /\ UNCHANGED <<moduleVars, componentVars, fontVars>>

\* return { value: result, unit }
Return ==
    /\ pc = "check"
    /\ ~invalidResult(result)
    /\ outcome' = Returned(result, unit)
    /\ pc' = "done"
    /\ UNCHANGED <<variant, expr, unit, mathExpr, tokens, i, output, operators, j,
                   stack, result, thrown>>
    /\ UNCHANGED <<moduleVars, componentVars, fontVars>>

\* catch (err) { throw err }, which would let the inner message out.
CatchRethrow ==
    /\ pc = "catch"
    /\ outcome' = Threw(thrown)
    /\ pc' = "done"
    /\ UNCHANGED <<variant, expr, unit, mathExpr, tokens, i, output, operators, j,
                   stack, result, thrown>>
    /\ UNCHANGED <<moduleVars, componentVars, fontVars>>

\* catch (err) { throw new Error('Invalid expression') }
Catch ==
    /\ pc = "catch"
    /\ outcome' = Threw("Invalid expression")
    /\ pc' = "done"
    /\ UNCHANGED <<variant, expr, unit, mathExpr, tokens, i, output, operators, j,
                   stack, result, thrown>>
    /\ UNCHANGED <<moduleVars, componentVars, fontVars>>

Next ==
    \/ ExtractUnit
    \/ TokenizeLib
    \/ TokenizeVi
    \/ InfixStepLib
    \/ InfixStepVi
    \/ Drain
    \/ PushNumber
    \/ ApplyToken
    \/ ReturnBasicMath
    \/ RejectResult
    \/ Return
    \/ Catch

Spec == Init /\ [][Next]_vars

----------------------------------------------------------------------------
(* A sequence of calls in one module                                       *)

\* At most MaxCalls calls, each on one of CallInputs.
MaxCalls == 3

CallInputs ==
    {<<>>,
     <<"2", "+", "3">>,
     <<"2", "/", "0">>,
     <<"-", "2">>,
     <<"4", "-", "2">>,
     <<"2", "p", "x">>,
     <<"2", "+">>,
     <<"1", ".", "5", "e", "m">>,
     <<" ", "2", " ", "*", "3", " ">>,
     <<"(", "2", "+", "3", ")", "*", "4">>}

InitCalls ==
    /\ Loaded
    /\ NoFonts
    /\ NotRendered
    /\ variant \in Variants
    /\ expr \in CallInputs
    /\ pc = "call"
    /\ unit = <<>>
    /\ mathExpr = <<>>
    /\ tokens = <<>>
    /\ i = 1
    /\ output = <<>>
    /\ operators = <<>>
    /\ j = 1
    /\ stack = <<>>
    /\ result = undefined
    /\ thrown = NoError
    /\ outcome = Pending

\* The caller has the outcome and calls evaluateExpression again: the
\* locals are new, the module-level regexes are the same objects.
NextCall ==
    /\ pc = "done"
    /\ ncalls < MaxCalls
    /\ calls' = calls \cup {[expr |-> expr, outcome |-> outcome]}
    /\ ncalls' = ncalls + 1
    /\ expr' \in CallInputs
    /\ pc' = "call"
    /\ unit' = <<>>
    /\ mathExpr' = <<>>
    /\ tokens' = <<>>
    /\ i' = 1
    /\ output' = <<>>
    /\ operators' = <<>>
    /\ j' = 1
    /\ stack' = <<>>
    /\ result' = undefined
    /\ thrown' = NoError
    /\ outcome' = Pending
    /\ UNCHANGED <<variant, lastIndex, componentVars, fontVars>>

NextCalls ==
    \/ Next
    \/ NextCall

SpecCalls == InitCalls /\ [][NextCalls]_vars

----------------------------------------------------------------------------
(* UnitInput                                                               *)

Infinity == [k |-> "Infinity", n |-> 0, d |-> 1]

NegativeInfinity == [k |-> "-Infinity", n |-> 0, d |-> 1]

\* a >= b on numbers: false when either side is NaN or undefined
jsGE(a, b) ==
    IF a.k = "num" /\ b.k = "num" THEN a.n * b.d >= b.n * a.d
    ELSE IF {a.k, b.k} \cap {"NaN", "undefined"} # {} THEN FALSE
    ELSE a.k = "Infinity" \/ b.k = "-Infinity"

jsLE(a, b) == jsGE(b, a)

\* result.value >= min only, without the test against max.
inRangeMinOnly(v, min, max) == jsGE(v, min)

\* result.value >= min && result.value <= max
inRange(v, min, max) == jsGE(v, min) /\ jsLE(v, max)

\* the unit of the typed text as it is, 'none' included.
typedUnit(resultUnit, current) == resultUnit

\* result.unit === 'none' ? localUnit : result.unit
unitToCommit(resultUnit, current) == IF resultUnit = NONE THEN current ELSE resultUnit

\* The UnitInput elements of src/app/page.tsx with the initial state of
\* their value, and one that leaves min, max and allowedUnits at their
\* defaults.
UnitInputs ==
    {[props |-> [min |-> Num(0), max |-> Num(10),
                 allowedUnits |-> {Unitless, Px, Em, Rem, Percent}],
      value |-> [value |-> Num(1), unit |-> Unitless]],
     [props |-> [min |-> Num(-50), max |-> Num(50),
                 allowedUnits |-> {Px, Em, Rem, Percent, Ch}],
      value |-> [value |-> Num(0), unit |-> Px]],
     [props |-> [min |-> NegativeInfinity, max |-> Infinity, allowedUnits |-> {Px}],
      value |-> [value |-> Num(0), unit |-> Px]]}

\* e.target.value: the texts a change event may carry
TypedTexts ==
    {<<>>,
     <<"5">>,
     <<"1", ".", "5", "+", "2">>,
     <<"2", "e", "m">>,
     <<"4", "f", "o", "o">>,
     <<"6", "0">>,
     <<"0", "-", "5">>,
     <<"2", "/", "0">>}

\* validate without the range: true for every text that evaluates.
validateSyntaxOnly(e, min, max) == evaluateExpression("lib", e).kind = "returned"

\* const validate = useCallback((expr) => ..., [min, max])
validate(e, min, max) ==
    LET r == evaluateExpression("lib", e)
    IN  /\ r.kind = "returned"
        /\ ~isNaN(r.value)
        /\ jsGE(r.value, min)
        /\ jsLE(r.value, max)

\* <SelectItem value={unit || "none"}>: the values the selector can pass to
\* handleUnitChange
SelectItems == {IF u = Unitless THEN NONE ELSE u : u \in props.allowedUnits}

\* A handler with the text and the unit it found in, or was given for, the
\* component's state.
Event(handler, text, u) == [handler |-> handler, text |-> text, unit |-> u]

InitUnitInput ==
    /\ Loaded
    /\ NoFonts
    /\ variant = "lib"
    /\ expr = <<>>
    /\ pc = "idle"
    /\ unit = <<>>
    /\ mathExpr = <<>>
    /\ tokens = <<>>
    /\ i = 1
    /\ output = <<>>
    /\ operators = <<>>
    /\ j = 1
    /\ stack = <<>>
    /\ result = undefined
    /\ thrown = NoError
    /\ outcome = Pending
    /\ \E u \in UnitInputs :
        /\ props = u.props
        /\ value = u.value
    /\ localValue = numberToString(value.value)
    /\ localUnit = value.unit
    /\ isEditing = FALSE
    /\ isValid = TRUE
    /\ onChange = <<>>
    /\ event = NoEvent

\* handleValueChange: a keystroke that makes the text newValue
HandleValueChange ==
    \E newValue \in TypedTexts :
        /\ localValue' = newValue
        /\ isEditing' = TRUE
        /\ isValid' = validate(newValue, props.min, props.max)
        /\ onChange' = <<>>
        /\ event' = Event("change", newValue, localUnit)
        /\ UNCHANGED <<props, value, localUnit>>
        /\ UNCHANGED <<callVars, moduleVars, fontVars>>

\* handleUnitChange without the test of isValid: the text is evaluated and
\* committed whatever the validity flag says.
HandleUnitChangeUnguarded ==
    \E selected \in SelectItems :
        /\ localUnit' = selected
        /\ LET r == evaluateExpression("lib", localValue)
               committed ==
                   IF r.kind = "returned"
                   THEN [value |-> r.value, unit |-> selected]
                   ELSE [value |-> value.value, unit |-> selected]
           IN  /\ onChange' = <<committed>>
               /\ value' = committed
        /\ event' = Event("select", localValue, selected)
        /\ UNCHANGED <<props, localValue, isEditing, isValid>>
        /\ UNCHANGED <<callVars, moduleVars, fontVars>>

\* handleUnitChange: an item of the selector is chosen; the parent stores
\* what onChange is given in the state it passes down as value.
HandleUnitChange ==
    \E selected \in SelectItems :
        /\ localUnit' = selected
        /\ IF isValid
           THEN LET r == evaluateExpression("lib", localValue)
                    committed ==
                        IF r.kind = "returned"
                        THEN [value |-> r.value, unit |-> selected]
                        ELSE [value |-> value.value, unit |-> selected]
                IN  /\ onChange' = <<committed>>
                    /\ value' = committed
           ELSE /\ onChange' = <<>>
                /\ value' = value
        /\ event' = Event("select", localValue, selected)
        /\ UNCHANGED <<props, localValue, isEditing, isValid>>
        /\ UNCHANGED <<callVars, moduleVars, fontVars>>

\* handleFinishEdit, which onBlur and the Enter key run
FinishEdit(trigger) ==
    /\ LET r == evaluateExpression("lib", localValue)
       IN  IF r.kind = "returned" /\ inRange(r.value, props.min, props.max)
           THEN LET committed ==
                        [value |-> r.value, unit |-> unitToCommit(r.unit, localUnit)]
                IN  /\ onChange' = <<committed>>
                    /\ value' = committed
                    /\ localValue' = numberToString(r.value)
                    /\ localUnit' = unitToCommit(r.unit, localUnit)
                    /\ isValid' = TRUE
           ELSE /\ onChange' = <<>>
                /\ localValue' = numberToString(value.value)
                /\ isValid' = FALSE
                /\ UNCHANGED <<value, localUnit>>
    /\ isEditing' = FALSE
    /\ event' = Event(trigger, localValue, localUnit)
    /\ UNCHANGED props
    /\ UNCHANGED <<callVars, moduleVars, fontVars>>

\* onBlur={handleFinishEdit}
Blur == FinishEdit("blur")

\* handleKeyDown, e.key === "Enter"
KeyDownEnter == FinishEdit("Enter")

\* handleKeyDown, e.key === "Escape"
KeyDownEscape ==
    /\ localValue' = numberToString(value.value)
    /\ isEditing' = FALSE
    /\ isValid' = TRUE
    /\ onChange' = <<>>
    /\ event' = Event("Escape", localValue, localUnit)
    /\ UNCHANGED <<props, value, localUnit>>
    /\ UNCHANGED <<callVars, moduleVars, fontVars>>

NextUnitInput ==
    \/ HandleValueChange
    \/ HandleUnitChange
    \/ Blur
    \/ KeyDownEnter
    \/ KeyDownEscape

SpecUnitInput == InitUnitInput /\ [][NextUnitInput]_vars

----------------------------------------------------------------------------
(* ValidatedInput                                                          *)

\* validate={(value) => value.toString().length > 0}
validateText(v) == Len(v) > 0

\* validate of the font size field: const num = Number(value);
\* return !isNaN(num) && num >= 1 && num <= 1000
validateFontSize(v) == ~isNaN(v) /\ jsGE(v, Num(1)) /\ jsLE(v, Num(1000))

\* the prop validate, by the element that passes it
validateProp(name, v) ==
    IF name = "fontSize" THEN validateFontSize(v) ELSE validateText(v)

\* type === "number" ? Number(newValue) : newValue
typed(type, s) == IF type = "number" THEN Number(s) ELSE s

\* value.toString()
valueToString(type, v) == IF type = "number" THEN numberToString(v) ELSE v

\* The ValidatedInput elements of src/app/page.tsx with the initial state
\* of their value.
ValidatedInputs ==
    {[props |-> [type |-> "text", validate |-> "text"],
      value |-> <<"H", "E", "A", "D", "I", "N", "G">>],
     [props |-> [type |-> "number", validate |-> "fontSize"],
      value |-> Num(200)]}

\* e.target.value: the texts a change event of the field may carry (a field
\* of type number only reports a number or the empty string)
FieldTexts(type) ==
    IF type = "number"
    THEN {<<>>, <<"5">>, <<"0">>, <<"1", ".", "5">>, <<"-", "3">>,
          <<"1", "0", "0", "0">>, <<"1", "0", "0", "1">>}
    ELSE {<<>>, <<"A">>, <<"H", "i">>, <<" ">>}

InitValidatedInput ==
    /\ Loaded
    /\ NoFonts
    /\ variant = "vi"
    /\ expr = <<>>
    /\ pc = "idle"
    /\ unit = <<>>
    /\ mathExpr = <<>>
    /\ tokens = <<>>
    /\ i = 1
    /\ output = <<>>
    /\ operators = <<>>
    /\ j = 1
    /\ stack = <<>>
    /\ result = undefined
    /\ thrown = NoError
    /\ outcome = Pending
    /\ \E u \in ValidatedInputs :
        /\ props = u.props
        /\ value = u.value
    /\ localValue = valueToString(props.type, value)
    /\ localUnit = <<>>
    /\ isEditing = FALSE
    /\ isValid = TRUE
    /\ onChange = <<>>
    /\ event = NoEvent

\* handleChange: a keystroke that makes the text newValue
HandleChange ==
    \E newValue \in FieldTexts(props.type) :
        /\ localValue' = newValue
        /\ isEditing' = TRUE
        /\ isValid' = validateProp(props.validate, typed(props.type, newValue))
        /\ onChange' = <<>>
        /\ event' = Event("change", newValue, <<>>)
        /\ UNCHANGED <<props, value, localUnit>>
        /\ UNCHANGED <<callVars, moduleVars, fontVars>>

\* handleFinishEdit without the test of isValid: the text is committed
\* whatever the validity flag says.
HandleFinishEditUnguarded(trigger) ==
    /\ onChange' = <<typed(props.type, localValue)>>
    /\ value' = typed(props.type, localValue)
    /\ isEditing' = FALSE
    /\ event' = Event(trigger, localValue, <<>>)
    /\ UNCHANGED <<props, localValue, localUnit, isValid>>
    /\ UNCHANGED <<callVars, moduleVars, fontVars>>

\* handleFinishEdit, which onBlur and the Enter key run; the parent stores
\* what onChange is given in the state it passes down as value.
HandleFinishEdit(trigger) ==
    /\ IF isValid
       THEN /\ onChange' = <<typed(props.type, localValue)>>
            /\ value' = typed(props.type, localValue)
            /\ UNCHANGED localValue
       ELSE /\ onChange' = <<>>
            /\ localValue' = valueToString(props.type, value)
            /\ UNCHANGED value
    /\ isEditing' = FALSE
    /\ event' = Event(trigger, localValue, <<>>)
    /\ UNCHANGED <<props, localUnit, isValid>>
    /\ UNCHANGED <<callVars, moduleVars, fontVars>>

\* onBlur={handleFinishEdit}
OnBlur == HandleFinishEdit("blur")

\* handleKeyDown, e.key === "Enter"
HandleKeyDownEnter == HandleFinishEdit("Enter")

\* handleKeyDown, e.key === "Escape", without the reset of the validity
\* flag.
HandleKeyDownEscapeKeepsValidity ==
    /\ localValue' = valueToString(props.type, value)
    /\ isEditing' = FALSE
    /\ onChange' = <<>>
    /\ event' = Event("Escape", localValue, <<>>)
    /\ UNCHANGED <<props, value, localUnit, isValid>>
    /\ UNCHANGED <<callVars, moduleVars, fontVars>>

\* handleKeyDown, e.key === "Escape"
HandleKeyDownEscape ==
    /\ localValue' = valueToString(props.type, value)
    /\ isEditing' = FALSE
    /\ isValid' = TRUE
    /\ onChange' = <<>>
    /\ event' = Event("Escape", localValue, <<>>)
    /\ UNCHANGED <<props, value, localUnit>>
    /\ UNCHANGED <<callVars, moduleVars, fontVars>>

NextValidatedInput ==
    \/ HandleChange
    \/ OnBlur
    \/ HandleKeyDownEnter
    \/ HandleKeyDownEscape

SpecValidatedInput == InitValidatedInput /\ [][NextValidatedInput]_vars

\* Which of the two components is rendered.
IsUnitInput == "allowedUnits" \in DOMAIN props

\* A page with one of the fields: a UnitInput or a ValidatedInput.
InitField == InitUnitInput \/ InitValidatedInput

NextField ==
    \/ IsUnitInput /\ NextUnitInput
    \/ ~IsUnitInput /\ NextValidatedInput

SpecFields == InitField /\ [][NextField]_vars

----------------------------------------------------------------------------
(* FontSelector and loadFont                                               *)

MaxLoadFontCalls == 5

\* No call of evaluateExpression is running.
Idle ==
    /\ variant = "lib"
    /\ expr = <<>>
    /\ pc = "idle"
    /\ unit = <<>>
    /\ mathExpr = <<>>
    /\ tokens = <<>>
    /\ i = 1
    /\ output = <<>>
    /\ operators = <<>>
    /\ j = 1
    /\ stack = <<>>
    /\ result = undefined
    /\ thrown = NoError
    /\ outcome = Pending

\* FontSelector after its mount effect has started fetchFonts: loading is
\* set and the font list is being fetched; the caches are empty.
InitFontSelector ==
    /\ Loaded
    /\ Idle
    /\ NotRendered
    /\ NoFitText
    /\ fonts = {}
    /\ loading = TRUE
    /\ error = FALSE
    /\ loadingFont = "null"
    /\ fetchFonts = "fontlist"
    /\ loadedFonts = [id \in FontList |-> 0]
    /\ loadedFontFaces = {}
    /\ promises = [id \in FontList |-> <<>>]
    /\ documentFonts = <<>>
    /\ loadFontCalls = {}
    /\ started = 0
    /\ fontFamily = "Inter"

\* What loadFont(id) finds when it is called: "true" when the id is in
\* loadedFontFaces, "fetch" when loadedFonts has no promise for it, and
\* else the state of the cached promise.
found(id) ==
    IF id \in loadedFontFaces THEN "true"
    ELSE IF loadedFonts[id] = 0 THEN "fetch"
    ELSE promises[id][loadedFonts[id]]

\* the calls of S go on to an await: of the promise, or of fontFace.load()
\* when the cached promise is fulfilled already
awaits(id) == found(id) \in {"fetch", "pending", "fulfilled"}

\* fetch(...).then(...): the promises after loadFont was called for the
\* ids of S
promisesAfter(S) ==
    [id \in FontList |->
        IF id \in S /\ found(id) = "fetch"
        THEN Append(promises[id], "pending") ELSE promises[id]]

\* let fontDetailsPromise: the cached promise, or the one of the fetch the
\* call issues
fontDetailsPromise(id) ==
    IF found(id) = "fetch" THEN Len(promises[id]) + 1 ELSE loadedFonts[id]

\* loadedFonts as it is without loadedFonts.set.
neverCached(S) == loadedFonts

\* loadedFonts.set(fontId, fontDetailsPromise), and loadedFonts.delete in
\* the catch block of a call that finds a promise that has failed
loadedFontsAfter(S) ==
    [id \in FontList |->
        IF id \notin S THEN loadedFonts[id]
        ELSE IF found(id) = "fetch" THEN fontDetailsPromise(id)
        ELSE IF found(id) \in {"noVariant", "rejected"} THEN 0
        ELSE loadedFonts[id]]

\* A call of loadFont at its await: of fontDetailsPromise ("details") or of
\* fontFace.load() ("load").
Call(n, id, by) ==
    [n |-> n, fontId |-> id, by |-> by,
     pc |-> IF found(id) = "fulfilled" THEN "load" ELSE "details",
     promise |-> fontDetailsPromise(id)]

\* await Promise.allSettled(...); setLoading(false): once no preloading call
\* is left among the calls
fetchFontsAfter(remaining) ==
    IF fetchFonts = "preload" /\ ~\E c \in remaining : c.by = "preload"
    THEN "done" ELSE fetchFonts

\* The font list arrives: setFonts(fontList) and loadFont for every common
\* font of the list, in the order of commonFonts.
FontListArrives ==
    /\ fetchFonts = "fontlist"
    /\ fonts' = FontList
    /\ LET preloaded == SelectSeq(commonFonts, LAMBDA id : id \in FontList)
           S == {preloaded[k] : k \in 1..Len(preloaded)}
           new == {Call(started + k, preloaded[k], "preload") :
                       k \in {q \in 1..Len(preloaded) : awaits(preloaded[q])}}
       IN  /\ promises' = promisesAfter(S)
           /\ loadedFonts' = loadedFontsAfter(S)
           /\ loadFontCalls' = loadFontCalls \cup new
           /\ started' = started + Len(preloaded)
           /\ fetchFonts' = IF new = {} THEN "done" ELSE "preload"
           /\ loading' = (new # {})
    /\ UNCHANGED <<error, loadingFont, loadedFontFaces, documentFonts, fontFamily>>
    /\ UNCHANGED <<callVars, moduleVars, componentVars, fitTextVars>>

\* The fetch of the font list fails: setError(message), setLoading(false).
FontListFails ==
    /\ fetchFonts = "fontlist"
    /\ error' = TRUE
    /\ loading' = FALSE
    /\ fetchFonts' = "done"
    /\ UNCHANGED <<fonts, loadingFont, loadedFonts, loadedFontFaces, promises,
                   documentFonts, loadFontCalls, started, fontFamily>>
    /\ UNCHANGED <<callVars, moduleVars, componentVars, fitTextVars>>

\* handleSelect: an item of the list is chosen.  The list is rendered when
\* neither loading nor error is set, and the item of loadingFont is
\* disabled.
HandleSelect ==
    \E id \in fonts :
        /\ ~loading /\ ~error
        /\ loadingFont # id
        /\ started < MaxLoadFontCalls
        /\ started' = started + 1
        /\ promises' = promisesAfter({id})
        /\ loadedFonts' = loadedFontsAfter({id})
        /\ IF awaits(id)
           THEN /\ loadFontCalls' =
                       loadFontCalls \cup {Call(started + 1, id, "select")}
                /\ loadingFont' = id
                /\ error' = FALSE
                /\ UNCHANGED fontFamily
           ELSE /\ loadingFont' = "null"
                /\ error' = (found(id) # "true")
                /\ fontFamily' = IF found(id) = "true" THEN family(id) ELSE fontFamily
                /\ UNCHANGED loadFontCalls
        /\ UNCHANGED <<fonts, loading, fetchFonts, loadedFontFaces, documentFonts>>
        /\ UNCHANGED <<callVars, moduleVars, componentVars, fitTextVars>>

\* the calls that await promise p of font id
awaiting(id, p) ==
    {c \in loadFontCalls : c.fontId = id /\ c.pc = "details" /\ c.promise = p}

\* The font details arrive with a woff2 variant: every call that awaits
\* the promise creates its FontFace and awaits fontFace.load().
DetailsArrive ==
    \E id \in FontList : \E p \in 1..Len(promises[id]) :
        /\ promises[id][p] = "pending"
        /\ promises' = [promises EXCEPT ![id][p] = "fulfilled"]
        /\ loadFontCalls' =
               (loadFontCalls \ awaiting(id, p))
                   \cup {[c EXCEPT !.pc = "load"] : c \in awaiting(id, p)}
        /\ UNCHANGED <<fonts, loading, error, loadingFont, fetchFonts, loadedFonts,
                       loadedFontFaces, documentFonts, started, fontFamily>>
        /\ UNCHANGED <<callVars, moduleVars, componentVars, fitTextVars>>

\* The fetch of the font details fails, or the details lack the variant:
\* every call that awaits the promise goes to its catch block, deletes the
\* entry of the font and returns false; a handleSelect that gets false sets
\* error and clears loadingFont.
DetailsFail ==
    \E id \in FontList : \E p \in 1..Len(promises[id]) :
      \E how \in {"rejected", "noVariant"} :
        /\ promises[id][p] = "pending"
        /\ promises' = [promises EXCEPT ![id][p] = how]
        /\ LET failing == awaiting(id, p)
               selects == {c \in failing : c.by = "select"}
           IN  /\ loadFontCalls' = loadFontCalls \ failing
               /\ loadedFonts' =
                      IF failing # {} THEN [loadedFonts EXCEPT ![id] = 0]
                      ELSE loadedFonts
               /\ error' = IF selects # {} THEN TRUE ELSE error
               /\ loadingFont' = IF selects # {} THEN "null" ELSE loadingFont
               /\ fetchFonts' = fetchFontsAfter(loadFontCalls \ failing)
               /\ loading' =
                      IF fetchFontsAfter(loadFontCalls \ failing) = "done"
                      THEN FALSE ELSE loading
        /\ UNCHANGED <<fonts, loadedFontFaces, documentFonts, started, fontFamily>>
        /\ UNCHANGED <<callVars, moduleVars, componentVars, fitTextVars>>

\* fontFace.load() of a call resolves: document.fonts.add(fontFace),
\* loadedFontFaces.add(fontId), return true; a handleSelect that gets true
\* calls onChange(fontFamily) and clears loadingFont.
FontFaceLoads ==
    \E c \in loadFontCalls :
        /\ c.pc = "load"
        /\ documentFonts' = Append(documentFonts, c.fontId)
        /\ loadedFontFaces' = loadedFontFaces \cup {c.fontId}
        /\ loadFontCalls' = loadFontCalls \ {c}
        /\ fontFamily' = IF c.by = "select" THEN family(c.fontId) ELSE fontFamily
        /\ loadingFont' = IF c.by = "select" THEN "null" ELSE loadingFont
        /\ fetchFonts' = fetchFontsAfter(loadFontCalls \ {c})
        /\ loading' =
               IF fetchFontsAfter(loadFontCalls \ {c}) = "done" THEN FALSE ELSE loading
        /\ UNCHANGED <<fonts, error, loadedFonts, promises, started>>
        /\ UNCHANGED <<callVars, moduleVars, componentVars, fitTextVars>>

\* fontFace.load() of a call rejects: the catch block deletes the entry of
\* the font and returns false.
FontFaceFails ==
    \E c \in loadFontCalls :
        /\ c.pc = "load"
        /\ loadedFonts' = [loadedFonts EXCEPT ![c.fontId] = 0]
        /\ loadFontCalls' = loadFontCalls \ {c}
        /\ error' = IF c.by = "select" THEN TRUE ELSE error
        /\ loadingFont' = IF c.by = "select" THEN "null" ELSE loadingFont
        /\ fetchFonts' = fetchFontsAfter(loadFontCalls \ {c})
        /\ loading' =
               IF fetchFontsAfter(loadFontCalls \ {c}) = "done" THEN FALSE ELSE loading
        /\ UNCHANGED <<fonts, loadedFontFaces, promises, documentFonts, started,
                       fontFamily>>
        /\ UNCHANGED <<callVars, moduleVars, componentVars, fitTextVars>>

NextFontSelector ==
    \/ FontListArrives
    \/ FontListFails
    \/ HandleSelect
    \/ DetailsArrive
    \/ DetailsFail
    \/ FontFaceLoads
    \/ FontFaceFails

SpecFontSelector == InitFontSelector /\ [][NextFontSelector]_vars

----------------------------------------------------------------------------
(* FitText                                                                 *)

MaxChecks == 2

\* the families and weights the page can select
Families == {"Inter", "Roboto"}

Weights == {500, 700}

\* textWidth === null
NoWidth == <<>>

\* ctx.measureText(text).width with ctx.font naming weight w and family f
Width(f, w) == <<f, w>>

\* the render that is on screen
Current == Render(fontFamily, fontWeight, isFontLoaded, textWidth)

\* A state or prop that measureText, and with it checkFontLoaded and
\* debouncedMeasureText, depends on has changed since the effects last ran:
\* the effects are due.
EffectsDue == effectsOf # Current

\* What the callbacks of the render on screen close over: measureText reads
\* fontFamily, fontWeight and isFontLoaded.
Closure == [fontFamily |-> fontFamily, fontWeight |-> fontWeight,
            isFontLoaded |-> isFontLoaded]

\* A run of checkFontLoaded with the closure of its render, at one of
\* its awaits: font.load ("observer"), document.fonts.load ("fontsLoad") or
\* the 500 ms timer ("timer").  Runs of one closure at one await are not
\* told apart.
Run(render, at) == [render |-> render, pc |-> at]

\* FitText after its mount effects: the first render, with the font family
\* and weight of the page, has started checkFontLoaded.
InitFitText ==
    /\ Loaded
    /\ Idle
    /\ NotRendered
    /\ NoFontSelector
    /\ fontFamily = "Inter"
    /\ fontWeight = 500
    /\ isFontLoaded = FALSE
    /\ textWidth = NoWidth
    /\ measureTextDebounceRef = <<>>
    /\ effectsOf = Render("Inter", 500, FALSE, NoWidth)
    /\ checks = {Run([fontFamily |-> "Inter", fontWeight |-> 500,
                       isFontLoaded |-> FALSE], "observer")}

\* textWidth after measureText() of the closure r: unchanged when
\* its isFontLoaded is false, else the width for its font
measureText(r) ==
    IF ~r.isFontLoaded THEN textWidth
    ELSE Width(r.fontFamily, r.fontWeight)

\* setFontFamily of the page: FitText is rendered with another fontFamily
SetFontFamily ==
    \E f \in Families \ {fontFamily} :
        /\ ~EffectsDue
        /\ Cardinality(checks) < MaxChecks
        /\ fontFamily' = f
        /\ UNCHANGED <<fontWeight, isFontLoaded, checks, textWidth,
                       measureTextDebounceRef, effectsOf>>
        /\ UNCHANGED <<fonts, loading, error, loadingFont, fetchFonts, loadedFonts,
                       loadedFontFaces, promises, documentFonts, loadFontCalls,
                       started>>
        /\ UNCHANGED <<callVars, moduleVars, componentVars>>

\* setFontWeight of the page: FitText is rendered with another fontWeight
SetFontWeight ==
    \E w \in Weights \ {fontWeight} :
        /\ ~EffectsDue
        /\ Cardinality(checks) < MaxChecks
        /\ fontWeight' = w
        /\ UNCHANGED <<isFontLoaded, checks, textWidth, measureTextDebounceRef,
                       effectsOf>>
        /\ UNCHANGED selectorVars
        /\ UNCHANGED <<callVars, moduleVars, componentVars>>

\* The effects of a render whose checkFontLoaded is a new function: each of
\* the font effects does setIsFontLoaded(false) and checkFontLoaded(), and
\* the effect of the text calls debouncedMeasureText() when the render had
\* isFontLoaded.
RunEffects ==
    /\ EffectsDue
    /\ isFontLoaded' = FALSE
    /\ checks' = checks \cup {Run(Closure, "observer")}
    /\ measureTextDebounceRef' =
           IF isFontLoaded THEN <<Closure>> ELSE measureTextDebounceRef
    /\ effectsOf' = Current
    /\ UNCHANGED <<fontWeight, textWidth>>
    /\ UNCHANGED selectorVars
    /\ UNCHANGED <<callVars, moduleVars, componentVars>>

\* setIsFontLoaded(true); measureText(): the end of a run of
\* checkFontLoaded
Completes(run) ==
    /\ isFontLoaded' = TRUE
    /\ textWidth' = measureText(run.render)
    /\ checks' = checks \ {run}
    /\ UNCHANGED <<fontWeight, measureTextDebounceRef, effectsOf>>
    /\ UNCHANGED selectorVars
    /\ UNCHANGED <<callVars, moduleVars, componentVars>>

\* await font.load(testString) resolves, or it rejects and
\* document.fonts.check(...) is true: both end the run the same way
ObserverLoads ==
    \E run \in checks :
        /\ ~EffectsDue
        /\ run.pc = "observer"
        /\ Completes(run)

\* font.load rejects and document.fonts.check(...) is false: the run awaits
\* document.fonts.load(...)
ObserverFails ==
    \E run \in checks :
        /\ ~EffectsDue
        /\ run.pc = "observer"
        /\ checks' = (checks \ {run}) \cup {Run(run.render, "fontsLoad")}
        /\ UNCHANGED <<fontWeight, isFontLoaded, textWidth, measureTextDebounceRef,
                       effectsOf>>
        /\ UNCHANGED selectorVars
        /\ UNCHANGED <<callVars, moduleVars, componentVars>>

\* await document.fonts.load(...) resolves
FontsLoadResolves ==
    \E run \in checks :
        /\ ~EffectsDue
        /\ run.pc = "fontsLoad"
        /\ Completes(run)

\* document.fonts.load(...) rejects: the catch block sets the 500 ms timer
FontsLoadRejects ==
    \E run \in checks :
        /\ ~EffectsDue
        /\ run.pc = "fontsLoad"
        /\ checks' = (checks \ {run}) \cup {Run(run.render, "timer")}
        /\ UNCHANGED <<fontWeight, isFontLoaded, textWidth, measureTextDebounceRef,
                       effectsOf>>
        /\ UNCHANGED selectorVars
        /\ UNCHANGED <<callVars, moduleVars, componentVars>>

\* the 500 ms timer of the catch block fires
TimerFires ==
    \E run \in checks :
        /\ ~EffectsDue
        /\ run.pc = "timer"
        /\ Completes(run)

\* the 100 ms timer of debouncedMeasureText fires: measureText() and
\* measureTextDebounceRef.current = null
DebounceFires ==
    /\ ~EffectsDue
    /\ measureTextDebounceRef # <<>>
    /\ textWidth' = measureText(measureTextDebounceRef[1])
    /\ measureTextDebounceRef' = <<>>
    /\ UNCHANGED <<fontWeight, isFontLoaded, checks, effectsOf>>
    /\ UNCHANGED selectorVars
    /\ UNCHANGED <<callVars, moduleVars, componentVars>>

NextFitText ==
    \/ SetFontFamily
    \/ SetFontWeight
    \/ RunEffects
    \/ ObserverLoads
    \/ ObserverFails
    \/ FontsLoadResolves
    \/ FontsLoadRejects
    \/ TimerFires
    \/ DebounceFires

SpecFitText == InitFitText /\ [][NextFitText]_vars

----------------------------------------------------------------------------
(* A call of evaluateExpression that is run to its end                     *)

MaxTokens == 4

\* the characters of numbers, of the binary and the unary minus, of an
\* operator of higher precedence and of the parentheses
LoopAlphabet == {"2", "-", "*", "(", ")"}

\* every string of them up to MaxTokens characters
LoopInputs == UNION {[1..n -> LoopAlphabet] : n \in 0..MaxTokens}

InitLoops ==
    /\ Loaded
    /\ NoFonts
    /\ NotRendered
    /\ variant \in Variants
    /\ expr \in LoopInputs
    /\ pc = "call"
    /\ unit = <<>>
    /\ mathExpr = <<>>
    /\ tokens = <<>>
    /\ i = 1
    /\ output = <<>>
    /\ operators = <<>>
    /\ j = 1
    /\ stack = <<>>
    /\ result = undefined
    /\ thrown = NoError
    /\ outcome = Pending

\* The call is synchronous: a step that can be taken is taken.
SpecLoops == InitLoops /\ [][Next]_vars /\ WF_vars(Next)

----------------------------------------------------------------------------
(* Reference semantics of the properties: what an input means, read        *)
(* directly off the string, independently of the tokenizer and of the      *)
(* operator stack.                                                         *)

Min(S) == CHOOSE x \in S : \A y \in S : x <= y

Max(S) == CHOOSE x \in S : \A y \in S : x >= y

NoSpaces(s) == SelectSeq(s, LAMBDA c : c # " ")

\* s from its first to its last character that is not a space
Trimmed(s) ==
    LET ns == {p \in 1..Len(s) : s[p] # " "}
    IN  IF ns = {} THEN <<>> ELSE SubSeq(s, Min(ns), Max(ns))

RefUnitChars == LowerLetters \cup UpperLetters \cup {"%"}

\* where the maximal trailing run of letters and "%" of t starts
RefRunStart(t) ==
    Min({n \in 1..(Len(t) + 1) : \A q \in n..Len(t) : t[q] \in RefUnitChars})

RefRun(t) == SubSeq(t, RefRunStart(t), Len(t))

\* the math portion of an input: trimmed, the trailing run removed, and
\* with no whitespace
RefMath(e) == NoSpaces(SubSeq(Trimmed(e), 1, RefRunStart(Trimmed(e)) - 1))

RefSyntax == [k |-> "syntax", n |-> 0, d |-> 1]

RefDivZero == [k |-> "div0", n |-> 0, d |-> 1]

RefApply(o, a, b) ==
    IF a.k = "div0" \/ b.k = "div0" THEN RefDivZero
    ELSE IF o = "+" THEN Rat(a.n * b.d + b.n * a.d, a.d * b.d)
    ELSE IF o = "-" THEN Rat(a.n * b.d - b.n * a.d, a.d * b.d)
    ELSE IF o = "*" THEN Rat(a.n * b.n, a.d * b.d)
    ELSE IF b.n = 0 THEN RefDivZero
    ELSE Rat(a.n * b.d, a.d * b.n)

\* the position after the maximal run of digits and "." that starts at p
RefRunEnd(s, p) ==
    Min({q \in p..(Len(s) + 1) : q = Len(s) + 1 \/ s[q] \notin Digits \cup {"."}})

\* a decimal literal: digits, or digits "." digits, or "." digits
RefIsLiteral(r) ==
    /\ r # <<>>
    /\ CountOf(r, ".") <= 1
    /\ Last(r) # "."

\* Recursive descent over
\*   expr   ::= term   (("+" | "-") term)*
\*   term   ::= factor (("*" | "/") factor)*
\*   factor ::= literal | "-" literal | "(" expr ")"
\* Each operator gives <<value, position after what was read>>.
RECURSIVE RefExpr(_, _)
RECURSIVE RefExprRest(_, _, _)
RECURSIVE RefTerm(_, _)
RECURSIVE RefTermRest(_, _, _)
RECURSIVE RefFactor(_, _)

RefLiteral(s, p, negative) ==
    LET q == RefRunEnd(s, p)
        r == SubSeq(s, p, q - 1)
        v == UnsignedValue(r)
    IN  IF p > Len(s) \/ ~RefIsLiteral(r) THEN <<RefSyntax, p>>
        ELSE <<IF negative THEN Rat(-v.n, v.d) ELSE v, q>>

RefFactor(s, p) ==
    IF p > Len(s) THEN <<RefSyntax, p>>
    ELSE IF s[p] = "("
         THEN LET r == RefExpr(s, p + 1)
              IN  IF r[1].k # "syntax" /\ r[2] <= Len(s) /\ s[r[2]] = ")"
                  THEN <<r[1], r[2] + 1>>
                  ELSE <<RefSyntax, p>>
    ELSE IF s[p] = "-" THEN RefLiteral(s, p + 1, TRUE)
    ELSE RefLiteral(s, p, FALSE)

RefTermRest(acc, s, p) ==
    IF p <= Len(s) /\ s[p] \in {"*", "/"}
    THEN LET f == RefFactor(s, p + 1)
         IN  IF f[1].k = "syntax" THEN <<RefSyntax, p>>
             ELSE RefTermRest(RefApply(s[p], acc, f[1]), s, f[2])
    ELSE <<acc, p>>

RefTerm(s, p) ==
    LET f == RefFactor(s, p)
    IN  IF f[1].k = "syntax" THEN f ELSE RefTermRest(f[1], s, f[2])

RefExprRest(acc, s, p) ==
    IF p <= Len(s) /\ s[p] \in {"+", "-"}
    THEN LET t == RefTerm(s, p + 1)
         IN  IF t[1].k = "syntax" THEN <<RefSyntax, p>>
             ELSE RefExprRest(RefApply(s[p], acc, t[1]), s, t[2])
    ELSE <<acc, p>>

RefExpr(s, p) ==
    LET t == RefTerm(s, p)
    IN  IF t[1].k = "syntax" THEN t ELSE RefExprRest(t[1], s, t[2])

\* the value of the whole of s: a number, RefDivZero, or RefSyntax
RefEval(s) ==
    LET r == RefExpr(s, 1)
    IN  IF r[1].k # "syntax" /\ r[2] = Len(s) + 1 THEN r[1] ELSE RefSyntax

\* the value the call is meant to give for its input
Meant == RefEval(RefMath(expr))

ReturnedValue(v) == outcome.kind = "returned" /\ outcome.value = v

Failed == outcome = Threw("Invalid expression")

Lit(n) == <<DigitChars[n + 1]>>

----------------------------------------------------------------------------
(* Properties                                                              *)

\* C1: an input whose math portion is a well-formed expression over
\* non-negative literals, + * / and balanced parentheses, with no zero
\* divisor, returns the value of the reference evaluator, in which * and /
\* bind tighter than + and parentheses override precedence.
C1_PrecedenceAndParentheses ==
    (/\ pc = "done"
     /\ \A p \in 1..Len(expr) : expr[p] # "-"
     /\ Meant.k = "num")
        => ReturnedValue(Meant)

\* "(2 + 3) * 4em" has returned 20 with the unit em.
C1_Witness ==
    /\ pc = "done"
    /\ expr = Spaced(GroupLeft(Lit(2), "+", Lit(3), "*", Lit(4))) \o Em
    /\ outcome = Returned(Num(20), Em)

LitValue(a) == Num(DigitsValue(a))

\* C2: a "-" that directly follows a number is a subtraction: "a - b"
\* returns a-b, "a - b - c" returns (a-b)-c and "a + b - c" returns
\* (a+b)-c, with or without spaces around the "-", in both copies.
C2_BinaryMinus ==
    pc = "done" =>
        LET m == RefMath(expr)
        IN  \A a \in Literals, b \in Literals, c \in Literals :
                /\ m = Binary(a, "-", b)
                      => ReturnedValue(RefApply("-", LitValue(a), LitValue(b)))
                /\ m = Chain(a, "-", b, "-", c)
                      => ReturnedValue(RefApply("-", RefApply("-", LitValue(a), LitValue(b)),
                                                LitValue(c)))
                /\ m = Chain(a, "+", b, "-", c)
                      => ReturnedValue(RefApply("-", RefApply("+", LitValue(a), LitValue(b)),
                                                LitValue(c)))

\* a "-" of m in unary position: first, or directly after ( + - * /
HasUnaryMinus(m) ==
    \E p \in 1..Len(m) :
        m[p] = "-" /\ (p = 1 \/ m[p - 1] \in {"(", "+", "-", "*", "/"})

\* C3: a "-" that is the first token or directly follows ( + - * / and is
\* followed by a number is the sign of that number, in both copies: a
\* well-formed input with such a "-" returns the reference value ("-5 + 2"
\* returns -3, "1.5 * -2px" returns -3).
C3_UnaryMinus ==
    (/\ pc = "done"
     /\ HasUnaryMinus(RefMath(expr))
     /\ Meant.k = "num")
        => ReturnedValue(Meant)

\* C4: operators of equal precedence associate to the left and the operand
\* pushed first is the left operand: for literals a, b, c and operators o,
\* q among * and /, with no zero divisor, "a o b" returns a o b and
\* "a o b q c" returns (a o b) q c, in both copies.
C4_LeftAssociative ==
    pc = "done" =>
        LET m == RefMath(expr)
        IN  \A a \in Literals, b \in Literals, c \in Literals :
              \A o \in {"*", "/"}, q \in {"*", "/"} :
                LET ab == RefApply(o, LitValue(a), LitValue(b))
                IN  /\ (m = Binary(a, o, b) /\ ab.k = "num") => ReturnedValue(ab)
                    /\ (m = Chain(a, o, b, q, c) /\ RefApply(q, ab, LitValue(c)).k = "num")
                          => ReturnedValue(RefApply(q, ab, LitValue(c)))

\* "4/2/2" has returned 1, which is (4/2)/2 and not 4/(2/2).
C4_Witness ==
    /\ pc = "done"
    /\ expr = Chain(Lit(4), "/", Lit(2), "/", Lit(2))
    /\ outcome = Returned(Num(1), NONE)

\* C5: on every successful call the unit is the maximal trailing run of
\* letters and "%" of the trimmed input, or "none" when there is no such
\* run, and the math evaluator received the trimmed input without that run;
\* "10px" returns the value 10 with the unit px.
C5_UnitIsTrailingRun ==
    (pc = "done" /\ outcome.kind = "returned") =>
        LET t == Trimmed(expr)
        IN  /\ outcome.unit = (IF RefRun(t) = <<>> THEN NONE ELSE RefRun(t))
            /\ mathExpr \o RefRun(t) = t
            /\ (t = <<"1", "0", "p", "x">> => outcome = Returned(Num(10), Px))

\* " 2%" (a leading space, a "%" unit) has returned the value 2 with the
\* unit "%", the math evaluator having received "2".
C5_Witness ==
    /\ pc = "done"
    /\ expr = <<" ", "2", "%">>
    /\ mathExpr = <<"2">>
    /\ outcome = Returned(Num(2), <<"%">>)

\* the divisor of a "/" of the input is zero when it is evaluated by the
\* reference evaluator
DividesByZero == Meant.k = "div0"

\* C6: an input that divides by zero, by a literal 0 as in "10 / 0" or by
\* a subexpression that evaluates to 0 as in "1 / (2 - 2)", fails with
\* 'Invalid expression', in both copies.
C6_DivisionByZeroFails == (pc = "done" /\ DividesByZero) => Failed

\* an operator of m with no operand on one side: a + - * / at the end or
\* directly before ) + * /, or a + * / at the start or directly after
\* ( + - * /
LacksOperand(m) ==
    \E p \in 1..Len(m) :
        \/ /\ m[p] \in {"+", "-", "*", "/"}
           /\ (p = Len(m) \/ m[p + 1] \in {")", "+", "*", "/"})
        \/ /\ m[p] \in {"+", "*", "/"}
           /\ (p = 1 \/ m[p - 1] \in {"(", "+", "-", "*", "/"})

\* C7: every input in which a binary operator lacks an operand ("2 +",
\* "* 2", "2 + * 3") fails with 'Invalid expression'.
C7_MissingOperandFails == (pc = "done" /\ LacksOperand(RefMath(expr))) => Failed

\* the number of occurrences of c among the first n characters of s
CountUpTo(s, c, n) == Cardinality({p \in 1..n : s[p] = c})

\* a ")" with no "(" before it to match, or a "(" that is never closed
Unbalanced(s) ==
    \/ \E n \in 1..Len(s) : CountUpTo(s, ")", n) > CountUpTo(s, "(", n)
    \/ CountOf(s, "(") # CountOf(s, ")")

\* C8: every input whose parentheses are unbalanced ("(2 + 3", "2 + 3)",
\* "(1)(2)(3") fails with 'Invalid expression'.
C8_UnbalancedFails == (pc = "done" /\ Unbalanced(expr)) => Failed

TokenChars == Digits \cup {".", "+", "-", "*", "/", "(", ")"}

\* the math portion of the input before whitespace is removed
RawMath == SubSeq(Trimmed(expr), 1, RefRunStart(Trimmed(expr)) - 1)

\* a character of the math portion that belongs to no token
HasForeignCharacter == \E p \in 1..Len(RawMath) : RawMath[p] \notin TokenChars \cup {" "}

\* a maximal run of digits and "." of m with two "." or with no digit
HasMalformedNumber(m) ==
    \E p \in 1..Len(m) :
        /\ m[p] \in Digits \cup {"."}
        /\ (p = 1 \/ m[p - 1] \notin Digits \cup {"."})
        /\ LET r == SubSeq(m, p, RefRunEnd(m, p) - 1)
           IN  CountOf(r, ".") >= 2 \/ CountOf(r, ".") = Len(r)

\* C9: every input whose math portion holds a character that is part of no
\* token ("2 # 3", "2a3") or a malformed number ("1.2.3") fails with
\* 'Invalid expression'.
C9_UntokenizableFails ==
    (pc = "done" /\ (HasForeignCharacter \/ HasMalformedNumber(RefMath(expr)))) => Failed

\* C10: the value of every successful call is a finite number, never NaN
\* and never undefined.
C10_ReturnedValueIsFinite ==
    (pc = "done" /\ outcome.kind = "returned") =>
        /\ outcome.value.k = "num"
        /\ outcome.value.d > 0

\* "3/2" has returned the finite number 3/2.
C10_Witness ==
    /\ pc = "done"
    /\ expr = Binary(Lit(3), "/", Lit(2))
    /\ result = Rat(3, 2)
    /\ outcome = Returned(Rat(3, 2), NONE)

UnitEnumeration == {Px, Em, Rem, Percent, Vw, Vh, Ch, NONE}

\* C11: the unit of every successful result is one of px, em, rem, %, vw,
\* vh, ch and 'none'; a trailing run that is none of them ("10foo") is not
\* returned as the unit.
C11_UnitInEnumeration ==
    (pc = "done" /\ outcome.kind = "returned") => outcome.unit \in UnitEnumeration

\* C12: a call ends in one of two ways, a complete {value, unit} or the
\* error 'Invalid expression'; whatever is thrown inside, 'Division by zero'
\* included, leaves as 'Invalid expression'.
C12_TwoOutcomes ==
    pc = "done" =>
        \/ /\ outcome.kind = "returned"
           /\ outcome.value.k = "num"
           /\ outcome.unit # <<>>
           /\ thrown = NoError
        \/ /\ outcome = Threw("Invalid expression")
           /\ thrown # NoError

\* "2/0" has thrown 'Division by zero' inside and 'Invalid expression'
\* outside.
C12_Witness ==
    /\ pc = "done"
    /\ expr = Binary(Lit(2), "/", Lit(0))
    /\ thrown = "Division by zero"
    /\ outcome = Threw("Invalid expression")

\* C16: an input with an empty math portion (the empty string, whitespace
\* only, a bare unit such as "p" or "%") fails with 'Invalid expression'.
C16_EmptyMathFails == (pc = "done" /\ RefMath(expr) = <<>>) => Failed

\* the bare unit " %" has failed, and so has the empty string in the other
\* behaviours
C16_Witness ==
    /\ pc = "done"
    /\ expr \in {<<>>, <<" ", " ">>, <<" ", "%">>, <<"p">>}
    /\ Failed

\* the argument without its trailing whitespace and without the trailing
\* run of letters and "%" before it
WithoutUnit(e) == SubSeq(trimEnd(e), 1, RefRunStart(trimEnd(e)) - 1)

UnitSuffixes == {<<>>, Em, Percent}

\* C15: the unit suffix never changes the number: for a text m that does
\* not end in a letter or "%", m followed by one suffix and m followed by
\* another both fail or return the same value; no conversion by
\* unitToPixels takes place.
C15_SuffixKeepsValue ==
    pc = "done" =>
        \A u \in UnitSuffixes :
            LET other == evaluateExpression(variant, WithoutUnit(expr) \o u)
            IN  /\ other.kind = outcome.kind
                /\ other.value = outcome.value

\* "2 + 3px" has returned 5 px, and "2 + 3em" returns 5 em
C15_Witness ==
    /\ pc = "done"
    /\ expr = Spaced(Binary(Lit(2), "+", Lit(3))) \o Px
    /\ outcome = Returned(Num(5), Px)
    /\ evaluateExpression(variant, WithoutUnit(expr) \o Em) = Returned(Num(5), Em)

\* s with a space after its first p characters, and s without its p-th
\* character
InsertSpace(s, p) == SubSeq(s, 1, p) \o <<" ">> \o SubSeq(s, p + 1, Len(s))

DeleteAt(s, p) == SubSeq(s, 1, p - 1) \o SubSeq(s, p + 1, Len(s))

\* the strings obtained from s by inserting one space or deleting one space
\* before the unit suffix of s or after it
WhitespaceEdits(s) ==
    LET suffix == RefRunStart(trimEnd(s))
        end    == Len(trimEnd(s))
    IN  {InsertSpace(s, p) : p \in {q \in 0..Len(s) : q < suffix \/ q >= end}}
            \cup {DeleteAt(s, p) :
                    p \in {q \in 1..Len(s) : s[q] = " " /\ (q < suffix \/ q > end)}}

Written(o) == numberToString(o.value) \o o.unit

\* C14: round trip: whenever a call returns {value v, unit u}, the call on
\* v.toString() + u returns the value v again, for negative v too ("0 - 5"
\* gives -5, and "-5" gives -5).
C14_RoundTrip ==
    (pc = "done" /\ outcome.kind = "returned" /\ DecimalNotation(outcome.value)) =>
        LET again == evaluateExpression(variant, Written(outcome))
        IN  /\ again.kind = "returned"
            /\ again.value = outcome.value

\* C17: in any sequence of calls, the outcome of a call is a function of
\* its own argument: it is the same as that of every earlier call on the
\* same argument, whatever was evaluated in between, and the module-level
\* regexes are back at lastIndex 0 when the call ends.
C17_CallsAreIndependent ==
    pc = "done" =>
        /\ outcome = evaluateExpression(variant, expr)
        /\ \A c \in calls : c.expr = expr => c.outcome = outcome
        /\ lastIndex = [WHITESPACE_REGEX |-> 0, TOKEN_REGEX |-> 0]

\* the third call, on "2+3" with the precompiled regexes, has returned 5
\* as the first did, after a call on another argument that failed
C17_Witness ==
    /\ pc = "done"
    /\ variant = "vi"
    /\ ncalls = 3
    /\ expr = Binary(Lit(2), "+", Lit(3))
    /\ outcome = Returned(Num(5), NONE)
    /\ calls = {[expr |-> expr, outcome |-> outcome],
                [expr |-> Binary(Lit(2), "/", Lit(0)),
                 outcome |-> Threw("Invalid expression")]}

\* the text evaluates to a value within [min, max] of the props
Commits(text) ==
    LET r == evaluateExpression("lib", text)
    IN  /\ r.kind = "returned"
        /\ jsLE(props.min, r.value)
        /\ jsLE(r.value, props.max)

\* C18: on blur or Enter, UnitInput calls onChange only when the text
\* evaluates to a value v with min <= v <= max, and then with exactly v;
\* otherwise it does not call onChange, the text becomes the string of the
\* last committed value, and editing mode ends.
C18_FinishEditCommitsInRange ==
    [][event'.handler \in {"blur", "Enter"} =>
        IF Commits(localValue)
        THEN /\ Len(onChange') = 1
             /\ onChange'[1].value = evaluateExpression("lib", localValue).value
             /\ value' = onChange'[1]
        ELSE /\ onChange' = <<>>
             /\ value' = value
             /\ localValue' = numberToString(value.value)
             /\ ~isEditing']_vars

\* after "1.5+2" with unit em was committed, "60" was typed into the field
\* of range [-50, 50] and the field lost focus: no onChange, the text is
\* "3.5" again, editing mode is left
C18_Witness ==
    /\ event = Event("blur", <<"6", "0">>, Em)
    /\ props.max = Num(50)
    /\ value = [value |-> Rat(7, 2), unit |-> Em]
    /\ onChange = <<>>
    /\ localValue = <<"3", ".", "5">>
    /\ ~isEditing
    /\ ~isValid

\* C19: when blur or Enter commits and the text has no unit (the
\* evaluated unit is 'none'), onChange gets the active unit localUnit, which
\* stays; when the text carries a unit, onChange gets that unit and it
\* becomes the active unit.
C19_CommittedUnit ==
    [][(event'.handler \in {"blur", "Enter"} /\ onChange' # <<>>) =>
        LET r == evaluateExpression("lib", localValue)
        IN  IF r.unit = NONE
            THEN /\ onChange'[1].unit = localUnit
                 /\ localUnit' = localUnit
            ELSE /\ onChange'[1].unit = r.unit
                 /\ localUnit' = r.unit]_vars

\* "5" was entered into the field whose unit had become em by a typed
\* "2em": 5 em is committed and em stays
C19_Witness ==
    /\ event = Event("Enter", <<"5">>, Em)
    /\ Px \in props.allowedUnits
    /\ onChange = <<[value |-> Num(5), unit |-> Em]>>
    /\ value = [value |-> Num(5), unit |-> Em]
    /\ localUnit = Em

\* C20: a keystroke never commits: it calls no onChange and leaves the
\* committed value and the unit as they are; it only makes the text the
\* typed one, enters editing mode, and sets the validity flag to true
\* exactly when the text evaluates to a value within [min, max].
C20_KeystrokeNeverCommits ==
    [][event'.handler = "change" =>
        /\ onChange' = <<>>
        /\ value' = value
        /\ localUnit' = localUnit
        /\ localValue' = event'.text
        /\ isEditing'
        /\ isValid' = Commits(localValue')]_vars

\* "60" typed into the untouched field of range [-50, 50]: shown as
\* invalid, nothing committed
C20_Witness ==
    /\ event = Event("change", <<"6", "0">>, Px)
    /\ props.max = Num(50)
    /\ value = [value |-> Num(0), unit |-> Px]
    /\ localValue = <<"6", "0">>
    /\ isEditing
    /\ ~isValid
    /\ onChange = <<>>

\* C21: after any sequence of UnitInput events the unit of the selector,
\* localUnit, is the unit of the last value given to onChange (which the
\* parent holds as value), or the initial unit when there was none; a
\* unit selection reaches onChange also after a failed commit or an invalid
\* keystroke.
C21_SelectorShowsCommittedUnit == localUnit = value.unit

\* the units of the Unit type of src/types
UnitType == {Px, Em, Rem, Percent, Vw, Vh, Ch, Unitless}

\* C22: every unit UnitInput gives to onChange is one of the field's
\* allowedUnits and of the Unit type; neither a typed suffix outside the
\* set nor the selector's item value 'none' is committed.
C22_CommittedUnitIsAllowed ==
    \A k \in 1..Len(onChange) : onChange[k].unit \in props.allowedUnits \cap UnitType

C24_OneStackEntry ==
    (pc \in {"check", "done"} /\ result.k = "num") =>
        /\ Len(stack) = 1
        /\ stack[1] = result

\* value.toString() of the field's committed value: the text a field shows
\* for the value its parent holds.
CommittedText ==
    IF IsUnitInput THEN numberToString(value.value)
    ELSE valueToString(props.type, value)

\* C25: Pressing Escape, in a UnitInput or in a ValidatedInput and whatever
\* the field held before, sets the local text to the string of the last
\* committed value, ends editing, sets the validity flag, and neither calls
\* onChange nor changes the committed value.
C25_EscapeRestores ==
    [][event'.handler = "Escape" =>
          /\ localValue' = CommittedText
          /\ ~isEditing'
          /\ isValid'
          /\ onChange' = <<>>
          /\ value' = value]_vars

\* Escape in the font size field after 5 was committed and 1001 typed (and
\* rejected): the text is 5 again.
C25_Witness ==
    /\ ~IsUnitInput
    /\ event = Event("Escape", <<"1", "0", "0", "1">>, <<>>)
    /\ value = Num(5)
    /\ localValue = <<"5">>
    /\ ~isEditing /\ isValid

\* C26: A ValidatedInput whose initial value satisfies validate calls
\* onChange only from blur or Enter and only with a value for which validate
\* is true; a blur or Enter that follows a rejected keystroke sets the text
\* back to the committed value and does not call onChange.
C26_CommitsOnlyValid ==
    [][/\ onChange' # <<>> =>
            /\ event'.handler \in {"blur", "Enter"}
            /\ \A k \in 1..Len(onChange') : validateProp(props.validate, onChange'[k])
       /\ (/\ event.handler = "change"
           /\ ~validateProp(props.validate, typed(props.type, event.text))
           /\ event'.handler \in {"blur", "Enter"}) =>
            /\ onChange' = <<>>
            /\ value' = value
            /\ localValue' = valueToString(props.type, value)]_vars

\* In the font size field 5 was committed, then 1001 typed and Enter
\* pressed: the text is 5 again and nothing was committed.
C26_Witness ==
    /\ props.type = "number"
    /\ event = Event("Enter", <<"1", "0", "0", "1">>, <<>>)
    /\ value = Num(5)
    /\ localValue = <<"5">>
    /\ onChange = <<>>

\* how many FontFace objects of font id are in document.fonts
FontFacesOf(id) ==
    Cardinality({k \in 1..Len(documentFonts) : documentFonts[k] = id})

\* C27: For every font id, document.fonts holds at most one FontFace that
\* loadFont added for it, whatever the interleaving of the loadFont calls.
C27_FontFaceAddedOnce == \A id \in FontList : FontFacesOf(id) <= 1

\* the fetches of the details of font id that are in flight
InFlight(id) == {p \in 1..Len(promises[id]) : promises[id][p] = "pending"}

\* C28: At most one fetch of a font's details is in flight; a call that
\* starts while one is in flight issues none; an entry that is deleted from
\* loadedFonts is that of a promise that has failed or of a call whose font
\* face failed, never a promise still in flight; and a call that finds no
\* entry (as after a failure) issues a fresh fetch.
C28_OneFetchInFlight ==
    [][\A id \in FontList :
          /\ Cardinality(InFlight(id))' <= 1
          /\ (InFlight(id) # {} /\ loadedFonts[id] # 0) =>
                 Len(promises'[id]) = Len(promises[id])
          /\ (loadedFonts[id] # 0 /\ loadedFonts'[id] = 0) =>
                 /\ loadedFonts[id] \notin InFlight(id)'
                 /\ InFlight(id)' = {}
          /\ (started' > started /\ loadedFonts[id] = 0 /\ loadedFonts'[id] # 0) =>
                 /\ Len(promises'[id]) = Len(promises[id]) + 1
                 /\ loadedFonts'[id] \in InFlight(id)']_vars

\* The preload of roboto failed, and of the two later calls for roboto the
\* first issued a fresh fetch that the second awaits as well.
C28_Witness ==
    /\ promises["roboto"] = <<"rejected", "pending">>
    /\ loadedFonts["roboto"] = 2
    /\ Cardinality(awaiting("roboto", 2)) = 2

\* C29: isFontLoaded becomes true only by the end of a checkFontLoaded run
\* (or of its 500 ms timer) that was started for the font family and weight
\* that are selected now, never by a run started for an earlier selection.
C29_FlagIsOfCurrentFont ==
    [][(~isFontLoaded /\ isFontLoaded') =>
          \E run \in checks \ checks' :
              /\ run.render.fontFamily = fontFamily
              /\ run.render.fontWeight = fontWeight]_vars

\* C30: Every call of evaluateExpression ends, by a return or by a throw.
\* On the way, an iteration of the infix loop moves the token index forward
\* by one token (two when a unary minus is combined with its number) and
\* never past the end, it adds at most one entry to the operator stack and
\* at most one token to the output and the stack together, so no token is
\* pushed or popped twice; and an iteration of the postfix loop moves to
\* the next token of an output that no longer changes.
C30_Terminates ==
    /\ <>(pc = "done")
    /\ [][/\ (pc = "infix" /\ pc' = "infix") =>
                /\ i' \in {i + 1, i + 2}
                /\ (i' = i + 2) => (variant = "vi" /\ isUnaryMinus(tokens, i))
                /\ i' <= Len(tokens) + 1
                /\ Len(operators') <= Len(operators) + 1
                /\ Len(output') + Len(operators') <= Len(output) + Len(operators) + 1
                /\ tokens' = tokens
          /\ (pc = "infix" /\ pc' = "postfix") =>
                /\ operators' = <<>>
                /\ Len(output') <= Len(output) + Len(operators)
          /\ (pc = "postfix" /\ pc' = "postfix") =>
                /\ j' = j + 1
                /\ j' <= Len(output) + 1
                /\ output' = output]_vars

\* The validated-input copy was given --2: the first minus was combined with
\* the token -2, which moved the index by two, the one token of the output
\* was visited once, and the call has ended with a throw.
C30_Witness ==
    /\ pc = "done"
    /\ variant = "vi"
    /\ expr = <<"-", "-", "2">>
    /\ tokens = <<<<"-">>, <<"-", "2">>>>
    /\ i = 3
    /\ output = <<<<"-", "-", "2">>>>
    /\ j = 2
    /\ outcome = Threw("Invalid expression")

====
